---------------------------- MODULE Spec2Model ----------------------------
(***************************************************************************)
(* WealthDash: the Ledger Store (accounts, transactions, exchange rates    *)
(* and their persisted snapshot), the totals computation, the import       *)
(* wizard with its oracle retry loop, and the auto analysis.               *)
(*                                                                         *)
(* Numbers.  Balances and amounts are integers.  Exchange rates are fixed  *)
(* point with three decimals (1.08 is 1080), the precision DEFAULT_RATES   *)
(* is written in; a converted amount is a pair of a numerator in           *)
(* thousandths of HKD and a denominator.  Floating point rounding is not   *)
(* modelled.                                                               *)
(*                                                                         *)
(* Strings.  Names are strings of a small alphabet; toLowerCase is the     *)
(* table Lower.  A JSON value that may be absent is the string Undefined.  *)
(***************************************************************************)
EXTENDS Integers, Sequences, FiniteSets, TLC

VARIABLES
    accounts,         \* App state: Account[]
    transactions,     \* App state: Transaction[]
    exchangeRates,    \* App state: Record<string, number>, in thousandths
    selectedAccount,  \* App state: Account | null
    isAnalyzing,      \* App state
    assetAnalysis,    \* App state
    expenseAnalysis,  \* App state
    isImportOpen,     \* App state: the ImportWizard is mounted
    wizard,           \* ImportWizard state of the mounted instance
    procs,            \* handleFileChange invocations still in flight
    analyses,         \* triggerAutoAnalysis invocations still in flight
    ratePending,      \* a refreshRates call is in flight
    storage,          \* localStorage[STORAGE_KEY]
    now,              \* Date.now()
    crashed,          \* an exception escaped a handler or an effect
    lastAction,       \* the handler that ran last, and what it was given
    arg,              \* the input of a pure computation
    res               \* its result

vars == <<accounts, transactions, exchangeRates, selectedAccount,
          isAnalyzing, assetAnalysis, expenseAnalysis, isImportOpen, wizard,
          procs, analyses, ratePending, storage, now, crashed,
          lastAction, arg, res>>

----------------------------------------------------------------------------
(* Bounds of the model *)

MaxAccounts == 1
MaxTransactions == 2
MaxProcs == 1
MaxAnalyses == 1
MaxClock == 1
MaxLen == 2
MaxCell == 3

----------------------------------------------------------------------------
(* Enums and constants of the program *)

Undefined == "<undefined>"

HKD == "HKD"
BANK == "Bank"
INVESTMENT == "Investment"
CATEGORY_OTHER == "Other"

Currency == {"HKD", "CNY", "USD", "JPY", "EUR", "GBP", "AUD", "CAD", "SGD"}

AccountType == {"Bank", "Investment", "Digital Wallet", "Personal/Other"}

ExpenseCategory ==
    {"Dining", "Groceries", "Transport", "Shopping", "Housing", "Utilities",
     "Bills", "Entertainment", "Health", "Transfer", "Income", "Investment",
     "Other"}

RateScale == 1000

DEFAULT_RATES ==
    [c \in Currency |->
        CASE c = "HKD" -> 1000
          [] c = "CNY" -> 1080
          [] c = "USD" -> 7820
          [] c = "JPY" -> 52
          [] c = "EUR" -> 8500
          [] c = "GBP" -> 9900
          [] c = "AUD" -> 5200
          [] c = "CAD" -> 5800
          [] c = "SGD" -> 5800]

INITIAL_ACCOUNTS == << >>

maxRetries == 3

BackoffBase == 2000

----------------------------------------------------------------------------
(* JavaScript primitives on the modelled values *)

\* String.prototype.toLowerCase on the names of the model
Lower(s) ==
    CASE s = "HSBC" -> "hsbc"
      [] s = "Hsbc" -> "hsbc"
      [] s = "MOX" -> "mox"
      [] s = "Mox" -> "mox"
      [] OTHER -> s

\* parseFloat(s) || 0 on the strings a form field or a snapshot can hold:
\* a leading number is read, anything else is NaN and becomes 0
parseFloatOr0(s) ==
    CASE s = "100" -> 100
      [] s = "200" -> 200
      [] s = "-500" -> -500
      [] s = "12abc" -> 12
      [] OTHER -> 0

\* a JavaScript string is truthy unless it is empty (or absent)
Truthy(s) == s # "" /\ s # Undefined

\* Math.pow(2, n)
RECURSIVE Pow2(_)
Pow2(n) == IF n <= 0 THEN 1 ELSE 2 * Pow2(n - 1)

Abs(x) == IF x < 0 THEN -x ELSE x

SeqMap(F(_), s) == [i \in 1..Len(s) |-> F(s[i])]

RECURSIVE SeqFilter(_, _)
SeqFilter(P(_), s) ==
    IF s = << >> THEN << >>
    ELSE IF P(Head(s)) THEN <<Head(s)>> \o SeqFilter(P, Tail(s))
         ELSE SeqFilter(P, Tail(s))

----------------------------------------------------------------------------
(* The persisted snapshot: JSON.stringify on write, JSON.parse on read *)

\* a JSON number, string or absent value in a balance field
JsonNumber(n) == [typ |-> "number", num |-> n, str |-> ""]

JsonString(s) == [typ |-> "string", num |-> 0, str |-> s]

JsonAbsent == [typ |-> "undefined", num |-> 0, str |-> ""]

\* JSON.stringify of one Account
JsonAccount(a) ==
    [isNull |-> FALSE, id |-> a.id, name |-> a.name, type |-> a.type,
     currency |-> a.currency, balance |-> JsonNumber(a.balance)]

NullElement ==
    [isNull |-> TRUE, id |-> Undefined, name |-> Undefined, type |-> Undefined,
     currency |-> Undefined, balance |-> JsonAbsent]

NoSnapshot ==
    [kind |-> "none",
     accounts |-> [isArray |-> FALSE, items |-> << >>],
     transactions |-> [isArray |-> FALSE, items |-> << >>],
     exchangeRates |-> [present |-> FALSE, table |-> << >>]]

\* JSON.stringify(dataToSave); lastUpdated is written and never read back
Snapshot(accs, txs, rates) ==
    [kind |-> "json",
     accounts |-> [isArray |-> TRUE, items |-> SeqMap(JsonAccount, accs)],
     transactions |-> [isArray |-> TRUE, items |-> txs],
     exchangeRates |-> [present |-> TRUE, table |-> rates]]

\* JSON.parse(saved) throws, or reading a field of the parsed value does
ParseThrows(saved) == saved.kind \in {"garbage", "null"}

\* one element of parsed.accounts, as the map callback builds it
LoadAccount(a, t) ==
    [id |-> IF Truthy(a.id) THEN a.id ELSE ToString(t),
     name |-> IF Truthy(a.name) THEN a.name ELSE "Unknown Asset",
     type |-> IF a.type \in AccountType THEN a.type ELSE BANK,
     currency |-> IF a.currency \in Currency THEN a.currency ELSE HKD,
     balance |-> IF a.balance.typ = "number" THEN a.balance.num
                 ELSE parseFloatOr0(a.balance.str)]

\* the map callback reads a.id of a null element
MapThrows(items) == \E i \in 1..Len(items) : items[i].isNull

\* the try block of the accounts initializer: what it returns, or that it threw
LoadAccountsTry(saved, t) ==
    IF saved.kind = "none" THEN [threw |-> FALSE, value |-> INITIAL_ACCOUNTS]
    ELSE IF ParseThrows(saved) THEN [threw |-> TRUE, value |-> << >>]
    ELSE IF saved.accounts.isArray
         THEN IF MapThrows(saved.accounts.items)
              THEN [threw |-> TRUE, value |-> << >>]
              ELSE [threw |-> FALSE,
                    value |-> [i \in 1..Len(saved.accounts.items) |->
                                  LoadAccount(saved.accounts.items[i], t)]]
    ELSE [threw |-> FALSE, value |-> INITIAL_ACCOUNTS]

\* an initializer without the catch block
LoadAccountsUncaught(saved, t) == LoadAccountsTry(saved, t)

\* the initializer of the accounts state: try, catch (warn), INITIAL_ACCOUNTS
LoadAccounts(saved, t) ==
    IF LoadAccountsTry(saved, t).threw
    THEN [threw |-> FALSE, value |-> INITIAL_ACCOUNTS]
    ELSE LoadAccountsTry(saved, t)

\* the initializer of the transactions state
LoadTransactions(saved) ==
    IF saved.kind = "none" \/ ParseThrows(saved) THEN << >>
    ELSE IF saved.transactions.isArray THEN saved.transactions.items
    ELSE << >>

\* the initializer of the exchangeRates state
LoadRates(saved) ==
    IF saved.kind = "none" \/ ParseThrows(saved) THEN DEFAULT_RATES
    ELSE IF saved.exchangeRates.present THEN saved.exchangeRates.table
    ELSE DEFAULT_RATES

----------------------------------------------------------------------------
(* The totals memo *)

\* exchangeRates[c] is a number other than 0 (undefined, 0 and NaN are falsy)
HasRate(rates, c) == c \in DOMAIN rates /\ rates[c] # 0

\* exchangeRates[acc.currency] || (acc.currency === HKD ? 1 : 0), then 0 -> 1
effectiveRate(rates, c) ==
    LET rateToHKD == IF HasRate(rates, c) THEN rates[c]
                     ELSE IF c = HKD THEN RateScale ELSE 0
    IN  IF rateToHKD = 0 THEN RateScale ELSE rateToHKD

\* bal * effectiveRate, in thousandths of HKD
balInHKD(acc, rates) == acc.balance * effectiveRate(rates, acc.currency)

\* what one pass of the forEach body adds to each running total
Contribution(acc, rates) ==
    LET bal == acc.balance
        isNegative == bal < 0
        zero == [hkdCash |-> 0, foreignCash |-> 0, investment |-> 0,
                 liability |-> 0, totalHKD |-> balInHKD(acc, rates)]
    IN  IF acc.type = INVESTMENT
        THEN IF bal > 0
             THEN [zero EXCEPT !.investment = balInHKD(acc, rates)]
             ELSE zero
        ELSE IF isNegative
        THEN [zero EXCEPT !.liability = Abs(balInHKD(acc, rates))]
        ELSE IF acc.currency = HKD
        THEN [zero EXCEPT !.hkdCash = bal * RateScale]
        ELSE [zero EXCEPT !.foreignCash = balInHKD(acc, rates)]

\* a loop over the accounts that stops at the first negative balance
RECURSIVE BucketsUntilNegative(_, _)
BucketsUntilNegative(accs, rates) ==
    IF accs = << >> \/ Head(accs).balance < 0
    THEN [hkdCash |-> 0, foreignCash |-> 0, investment |-> 0, liability |-> 0,
          totalHKD |-> 0]
    ELSE LET c == Contribution(Head(accs), rates)
             r == BucketsUntilNegative(Tail(accs), rates)
         IN  [hkdCash |-> c.hkdCash + r.hkdCash,
              foreignCash |-> c.foreignCash + r.foreignCash,
              investment |-> c.investment + r.investment,
              liability |-> c.liability + r.liability,
              totalHKD |-> c.totalHKD + r.totalHKD]

RECURSIVE Buckets(_, _)
Buckets(accs, rates) ==
    IF accs = << >>
    THEN [hkdCash |-> 0, foreignCash |-> 0, investment |-> 0, liability |-> 0,
          totalHKD |-> 0]
    ELSE LET c == Contribution(Head(accs), rates)
             r == Buckets(Tail(accs), rates)
         IN  [hkdCash |-> c.hkdCash + r.hkdCash,
              foreignCash |-> c.foreignCash + r.foreignCash,
              investment |-> c.investment + r.investment,
              liability |-> c.liability + r.liability,
              totalHKD |-> c.totalHKD + r.totalHKD]

\* 1 / displayFactor, in thousandths: exchangeRates[baseCurrency] || 1
displayDivisor(rates, base) ==
    IF base # HKD
    THEN IF HasRate(rates, base) THEN rates[base] ELSE RateScale
    ELSE RateScale

\* the value of the totals memo; every amount x stands for x / den
totals(accs, rates, base) ==
    LET b == Buckets(accs, rates)
    IN  [netWorth |-> b.hkdCash + b.foreignCash + b.investment - b.liability,
         hkdCash |-> b.hkdCash,
         foreignCash |-> b.foreignCash,
         investments |-> b.investment,
         liabilities |-> b.liability,
         den |-> displayDivisor(rates, base)]

----------------------------------------------------------------------------
(* The chart's totalData memo: every value x stands for x.num / x.den *)

\* safeRates[acc.currency] || (acc.currency === HKD ? 1 : 0), then 0 -> 1
safeRateToHKD(rates, c) ==
    LET rateToHKD == IF HasRate(rates, c) THEN rates[c]
                     ELSE IF c = HKD THEN RateScale ELSE 0
    IN  IF rateToHKD = 0 THEN RateScale ELSE rateToHKD

\* a chart that shows the value in HKD whatever the base currency is
baseRateUnity(rates, base) == RateScale

\* safeRates[baseCurrency] || 1, the divisor of the second hop; no division
\* when the base currency is HKD
baseRateToHKD(rates, base) ==
    IF base # HKD
    THEN IF HasRate(rates, base) THEN rates[base] ELSE RateScale
    ELSE RateScale

\* rawBal * safeRateToHKD / baseRateToHKD
finalVal(acc, rates, base) ==
    [num |-> acc.balance * safeRateToHKD(rates, acc.currency),
     den |-> baseRateToHKD(rates, base)]

\* one element of the map
chartItem(acc, rates, base) ==
    [id |-> acc.id,
     name |-> IF Truthy(acc.name) THEN acc.name ELSE "Unknown",
     value |-> finalVal(acc, rates, base),
     originalValue |-> acc.balance,
     currency |-> acc.currency,
     type |-> acc.type]

\* x.value > 0
Positive(x) == (x.num > 0 /\ x.den > 0) \/ (x.num < 0 /\ x.den < 0)

\* b.value - a.value > 0: b is placed before a (the values of one memo
\* have the same divisor)
Before(b, a) ==
    IF a.den = b.den
    THEN IF a.den > 0 THEN b.num > a.num ELSE b.num < a.num
    ELSE Positive([num |-> b.num * a.den - a.num * b.den,
                   den |-> a.den * b.den])

\* Array.prototype.sort with (a, b) => b.value - a.value: stable, descending
RECURSIVE sortByValue(_)
sortByValue(items) ==
    IF items = << >> THEN << >>
    ELSE LET rest == sortByValue(Tail(items))
             x == Head(items)
             k == Cardinality({i \in 1..Len(rest) :
                                  Before(rest[i].value, x.value)})
         IN  SubSeq(rest, 1, k) \o <<x>> \o SubSeq(rest, k + 1, Len(rest))

totalData(accs, rates, base) ==
    LET mapped == [i \in 1..Len(accs) |-> chartItem(accs[i], rates, base)]
        Shown(item) == Positive(item.value)
    IN  sortByValue(SeqFilter(Shown, mapped))

----------------------------------------------------------------------------
(* cleanAmount of the ImportWizard.  A cell of the sheet is null, a number or
   a string; a string is the sequence of its characters, and a number x
   stands for x.num / x.den *)

CellNull == [typ |-> "null", num |-> 0, chars |-> << >>]

CellNumber(n) == [typ |-> "number", num |-> n, chars |-> << >>]

CellText(chars) == [typ |-> "string", num |-> 0, chars |-> chars]

Digits == {"0", "1", "2", "3", "4", "5", "6", "7", "8", "9"}

DigitValue(c) ==
    CASE c = "0" -> 0 [] c = "1" -> 1 [] c = "2" -> 2 [] c = "3" -> 3
      [] c = "4" -> 4 [] c = "5" -> 5 [] c = "6" -> 6 [] c = "7" -> 7
      [] c = "8" -> 8 [] c = "9" -> 9

\* String.prototype.trim on the white space of the model, the blank
RECURSIVE trimStart(_)
trimStart(chars) ==
    IF chars # << >> /\ Head(chars) = " " THEN trimStart(Tail(chars))
    ELSE chars

RECURSIVE trimEnd(_)
trimEnd(chars) ==
    IF chars # << >> /\ chars[Len(chars)] = " "
    THEN trimEnd(SubSeq(chars, 1, Len(chars) - 1))
    ELSE chars

trim(chars) == trimEnd(trimStart(chars))

\* a cleaning that keeps the first character when it is a minus sign, and
\* digits and points after it
stripToSignedNumber(chars) ==
    LET Stays(c) == c \in Digits \cup {"."}
    IN  IF chars # << >> /\ Head(chars) = "-"
        THEN <<"-">> \o SeqFilter(Stays, Tail(chars))
        ELSE SeqFilter(Stays, chars)

\* str.replace(/[^0-9.-]/g, ''): digits, points and minus signs stay
stripOthers(chars) ==
    LET Stays(c) == c \in Digits \cup {".", "-"}
    IN  SeqFilter(Stays, chars)

\* the longest prefix of digits
RECURSIVE digitPrefix(_)
digitPrefix(chars) ==
    IF chars # << >> /\ Head(chars) \in Digits
    THEN <<Head(chars)>> \o digitPrefix(Tail(chars))
    ELSE << >>

\* the number a sequence of digits writes
RECURSIVE digitsValue(_)
digitsValue(ds) ==
    IF ds = << >> THEN 0
    ELSE 10 * digitsValue(SubSeq(ds, 1, Len(ds) - 1))
         + DigitValue(ds[Len(ds)])

RECURSIVE Pow10(_)
Pow10(n) == IF n = 0 THEN 1 ELSE 10 * Pow10(n - 1)

\* parseFloat on a string of digits, points and minus signs: an optional
\* minus sign, digits, an optional point and digits; what follows is ignored,
\* and NaN is the result when no digit is read
parseFloat(chars) ==
    LET negative == chars # << >> /\ Head(chars) = "-"
        body == IF negative THEN Tail(chars) ELSE chars
        int == digitPrefix(body)
        rest == SubSeq(body, Len(int) + 1, Len(body))
        frac == IF rest # << >> /\ Head(rest) = "."
                THEN digitPrefix(Tail(rest)) ELSE << >>
        magnitude == digitsValue(int) * Pow10(Len(frac)) + digitsValue(frac)
    IN  IF int = << >> /\ frac = << >>
        THEN [isNaN |-> TRUE, num |-> 0, den |-> 1]
        ELSE [isNaN |-> FALSE,
              num |-> IF negative THEN -magnitude ELSE magnitude,
              den |-> Pow10(Len(frac))]

cleanAmount(val) ==
    IF val.typ = "null" THEN [num |-> 0, den |-> 1]
    ELSE IF val.typ = "number" THEN [num |-> val.num, den |-> 1]
    ELSE LET str == trim(val.chars)
             num == parseFloat(stripOthers(str))
         IN  IF str = <<"-">> \/ str = << >> THEN [num |-> 0, den |-> 1]
             ELSE IF num.isNaN THEN [num |-> 0, den |-> 1]
             ELSE [num |-> num.num, den |-> num.den]

----------------------------------------------------------------------------
(* Extraction: smartParseDocument's normalisation and handleExcelImport *)

\* accounts of the oracle response, mapped and filtered
ProcessAccounts(data) ==
    IF data.accountsIsArray
    THEN LET Norm(acc) ==
                 [id |-> Undefined,
                  name |-> IF Truthy(acc.name) THEN acc.name
                           ELSE "Unknown Account",
                  balance |-> acc.balance,
                  currency |-> IF acc.currency \in Currency THEN acc.currency
                               ELSE HKD,
                  type |-> IF acc.type \in AccountType THEN acc.type ELSE BANK]
             NonZero(a) == a.balance # 0
         IN  SeqFilter(NonZero, SeqMap(Norm, data.accounts))
    ELSE << >>

\* transactions of the oracle response, mapped; idx counts from 0
ProcessTransactions(data, t) ==
    IF data.transactionsIsArray
    THEN [i \in 1..Len(data.transactions) |->
            LET tx == data.transactions[i]
            IN  [id |-> "tx-" \o ToString(t) \o "-" \o ToString(i - 1),
                 date |-> IF Truthy(tx.date) THEN tx.date ELSE "today",
                 description |-> IF Truthy(tx.description) THEN tx.description
                                 ELSE "Unknown",
                 category |-> IF tx.category \in ExpenseCategory
                              THEN tx.category ELSE CATEGORY_OTHER,
                 amount |-> tx.amount]]
    ELSE << >>

\* guessType on the names of the model: MOX is a wallet keyword
guessType(name) ==
    IF Lower(name) = "mox" THEN "Digital Wallet" ELSE BANK

\* guessCurrency on name + " " + currency cell
guessCurrency(name, curStr) ==
    IF curStr = "USD" THEN "USD"
    ELSE IF curStr = "RMB" THEN "CNY"
    ELSE HKD

\* the rows below the header row, parsed; idx is the row's index in the slice
parsedAccounts(rows, t) ==
    LET Parse(i) ==
            [id |-> "gen-" \o ToString(i - 1) \o "-" \o ToString(t),
             name |-> rows[i].name,
             balance |-> rows[i].balance,
             currency |-> guessCurrency(rows[i].name, rows[i].currency),
             type |-> guessType(rows[i].name)]
        Keep(i) == Truthy(rows[i].name) /\ rows[i].balance > 0
        RECURSIVE From(_)
        From(i) == IF i > Len(rows) THEN << >>
                   ELSE IF Keep(i) THEN <<Parse(i)>> \o From(i + 1)
                   ELSE From(i + 1)
    IN  From(1)

----------------------------------------------------------------------------
(* handleImportSmart: the merge of a confirmed import *)

\* a findIndex that compares the names as they are written
findIndexExact(next, name) ==
    IF \E i \in 1..Len(next) : next[i].name = name
    THEN CHOOSE i \in 1..Len(next) :
            /\ next[i].name = name
            /\ \A j \in 1..(i - 1) : next[j].name # name
    ELSE 0

\* nextAccounts.findIndex(a => a.name.toLowerCase() === name.toLowerCase()),
\* counted from 1; 0 when there is none
findIndex(next, name) ==
    IF \E i \in 1..Len(next) : Lower(next[i].name) = Lower(name)
    THEN CHOOSE i \in 1..Len(next) :
            /\ Lower(next[i].name) = Lower(name)
            /\ \A j \in 1..(i - 1) : Lower(next[j].name) # Lower(name)
    ELSE 0

\* `ai-${Date.now()}-${Math.random().toString(36).substr(2, 9)}`
mintId(t, rnd) == "ai-" \o ToString(t) \o "-" \o rnd

\* a forEach body without its first line: a draft without a name matches no
\* account and is pushed under the name New Account
mergeOneUnskipped(next, newAccount, t, rnd) ==
    LET existingIndex == IF Truthy(newAccount.name)
                         THEN findIndex(next, newAccount.name) ELSE 0
    IN  IF existingIndex >= 1
        THEN [next EXCEPT ![existingIndex].balance = newAccount.balance]
        ELSE Append(next,
               [id |-> mintId(t, rnd),
                name |-> IF Truthy(newAccount.name) THEN newAccount.name
                         ELSE "New Account",
                balance |-> newAccount.balance,
                currency |-> IF Truthy(newAccount.currency)
                             THEN newAccount.currency ELSE HKD,
                type |-> IF Truthy(newAccount.type)
                         THEN newAccount.type ELSE BANK])

\* the body of data.accounts.forEach for one draft
mergeOne(next, newAccount, t, rnd) ==
    IF ~Truthy(newAccount.name) THEN next
    ELSE LET existingIndex == findIndex(next, newAccount.name)
         IN  IF existingIndex >= 1
             THEN [next EXCEPT ![existingIndex].balance = newAccount.balance]
             ELSE Append(next,
                    [id |-> mintId(t, rnd),
                     name |-> newAccount.name,
                     balance |-> newAccount.balance,
                     currency |-> IF Truthy(newAccount.currency)
                                  THEN newAccount.currency ELSE HKD,
                     type |-> IF Truthy(newAccount.type)
                              THEN newAccount.type ELSE BANK])

\* data.accounts.forEach over nextAccounts = [...accounts]; rnds[i] is the
\* value Math.random gives for the i-th draft
RECURSIVE mergeImportedAccounts(_, _, _, _)
mergeImportedAccounts(next, drafts, t, rnds) ==
    IF drafts = << >> THEN next
    ELSE mergeImportedAccounts(mergeOne(next, Head(drafts), t, Head(rnds)),
                               Tail(drafts), t, Tail(rnds))

\* imported transactions put behind the existing ones
appendImportedTransactions(txs, drafts) ==
    IF Len(drafts) > 0 THEN txs \o drafts ELSE txs

\* nextTransactions = [...data.transactions, ...nextTransactions]
mergeImportedTransactions(txs, drafts) ==
    IF Len(drafts) > 0 THEN drafts \o txs ELSE txs

----------------------------------------------------------------------------
(* The App component: state after mount, effects and handlers *)

NoAccount ==
    [id |-> Undefined, name |-> "", type |-> "", currency |-> "", balance |-> 0]

FreshWizard ==
    [isProcessing |-> FALSE, errorMsg |-> "", foundAccounts |-> << >>,
     foundTransactions |-> << >>]

NoInfo == [op |-> "mount", threw |-> FALSE, errs |-> << >>, delays |-> << >>]

Did(op) == [NoInfo EXCEPT !.op = op]

\* a persist effect that leaves the stored transactions as they were
persistWithoutTransactions(prev, accs, txs, rates) ==
    [Snapshot(accs, txs, rates) EXCEPT !.transactions = prev.transactions]

\* the persist effect: localStorage.setItem(STORAGE_KEY, JSON.stringify(..));
\* prev is what the key holds when the effect runs
persistEffect(prev, accs, txs, rates) == Snapshot(accs, txs, rates)

\* localStorage.setItem throws (QuotaExceededError) when the text does not
\* fit into the room the origin has left; that room, counted in stored
\* accounts and transactions, is arg.quota when it is limited
setItemThrows(accs, txs) ==
    "quota" \in DOMAIN arg /\ Len(accs) + Len(txs) > arg.quota

\* the persist effect runs after the render: what setItem throws escapes the
\* effect, which has no try block, and React unmounts the App
persist(prev, accs, txs, rates) ==
    IF setItemThrows(accs, txs)
    THEN storage' = prev /\ crashed' = TRUE
    ELSE storage' = persistEffect(prev, accs, txs, rates) /\ crashed' = crashed

\* no modal overlay covers the page
PageFree == ~isImportOpen /\ selectedAccount = NoAccount

\* snapshots the program is started on
BootSnapshots ==
    { NoSnapshot,
      [kind |-> "json",
       accounts |-> [isArray |-> TRUE,
                     items |-> << [isNull |-> FALSE, id |-> "acc_1",
                                   name |-> "hsbc", type |-> "Bank",
                                   currency |-> "HKD",
                                   balance |-> JsonNumber(100)] >>],
       transactions |-> [isArray |-> FALSE, items |-> << >>],
       exchangeRates |-> [present |-> TRUE,
                          table |-> [c \in {"HKD", "CNY"} |->
                                        DEFAULT_RATES[c]]]] }

\* the state once App has mounted: the three initializers have run, the
\* persist effect has written the snapshot back, and the mount effect has
\* called refreshRates when the table holds at most two currencies
Mounted(saved) ==
    /\ now = 0
    /\ accounts = LoadAccounts(saved, 0).value
    /\ crashed = LoadAccounts(saved, 0).threw
    /\ transactions = LoadTransactions(saved)
    /\ exchangeRates = LoadRates(saved)
    /\ storage = persistEffect(saved, LoadAccounts(saved, 0).value,
                               LoadTransactions(saved), LoadRates(saved))
    /\ ratePending = (Cardinality(DOMAIN LoadRates(saved)) <= 2)
    /\ selectedAccount = NoAccount
    /\ isAnalyzing = FALSE
    /\ assetAnalysis = ""
    /\ expenseAnalysis = ""
    /\ isImportOpen = FALSE
    /\ wizard = FreshWizard
    /\ procs = << >>
    /\ analyses = << >>
    /\ lastAction = NoInfo

Init ==
    \E saved \in BootSnapshots :
        /\ Mounted(saved)
        /\ arg = << >>
        /\ res = << >>

\* time passes
Tick ==
    /\ now < MaxClock
    /\ now' = now + 1
    /\ UNCHANGED <<accounts, transactions, exchangeRates, selectedAccount,
                   isAnalyzing, assetAnalysis, expenseAnalysis, isImportOpen,
                   wizard, procs, analyses, ratePending, storage, 
                   crashed, lastAction, arg, res>>

\* the quick-add form as the user has filled it in: the name, the text typed
\* into the amount field, the currency
AddNames == {"", "hsbc"}
AddBalances == {"abc", "100"}
AddCurrencies == {"HKD"}

\* the texts that are valid floating-point numbers
NumberTexts == {"0", "100", "200", "-500"}

\* e.target.value of an <input type="text">: the text typed
textInputValue(text) == text

\* e.target.value of an <input type="number">: the text typed when it is a
\* valid floating-point number, the empty string otherwise
numberInputValue(text) == IF text \in NumberTexts THEN text ELSE ""

handleAddAccount(newAccountName, newAccountBalance, newAccountCurrency) ==
    /\ ~crashed /\ PageFree
    /\ IF ~Truthy(newAccountName) \/ ~Truthy(newAccountBalance)
       THEN /\ UNCHANGED <<accounts, storage, crashed>>
            /\ lastAction' = Did("handleAddAccount:return")
       ELSE /\ accounts' = Append(accounts,
                              [id |-> ToString(now),
                               name |-> newAccountName,
                               balance |-> parseFloatOr0(newAccountBalance),
                               currency |-> newAccountCurrency,
                               type |-> BANK])
            /\ persist(storage, accounts', transactions, exchangeRates)
            /\ lastAction' = Did("handleAddAccount")
    /\ UNCHANGED <<transactions, exchangeRates, selectedAccount, isAnalyzing,
                   assetAnalysis, expenseAnalysis, isImportOpen, wizard, procs,
                   analyses, ratePending, now, arg, res>>

\* AssetChart's onAccountClick on the slice of account i:
\* accounts.find(a => a.id === id), the first account of that id
onAccountClick(i) ==
    /\ ~crashed /\ PageFree
    /\ i \in 1..Len(accounts)
    /\ selectedAccount' =
          accounts[CHOOSE j \in 1..Len(accounts) :
                      /\ accounts[j].id = accounts[i].id
                      /\ \A k \in 1..(j - 1) : accounts[k].id # accounts[i].id]
    /\ lastAction' = Did("onAccountClick")
    /\ UNCHANGED <<accounts, transactions, exchangeRates, isAnalyzing,
                   assetAnalysis, expenseAnalysis, isImportOpen, wizard, procs,
                   analyses, ratePending, storage, now, crashed, arg,
                   res>>

\* the edit modal's backdrop and X button
closeEditModal ==
    /\ ~crashed /\ selectedAccount # NoAccount
    /\ selectedAccount' = NoAccount
    /\ lastAction' = Did("closeEditModal")
    /\ UNCHANGED <<accounts, transactions, exchangeRates, isAnalyzing,
                   assetAnalysis, expenseAnalysis, isImportOpen, wizard, procs,
                   analyses, ratePending, storage, now, crashed, arg,
                   res>>

\* the edit modal's fields as the user leaves them
EditNames == {""}
EditBalances == {"-500"}
EditTypes == {"Investment"}
EditCurrencies == {"USD"}

\* prev.map(a => a.id === updatedAcc.id ? updatedAcc : a)
mapUpdatedAcc(prev, updatedAcc) ==
    [i \in 1..Len(prev) |->
        IF prev[i].id = updatedAcc.id THEN updatedAcc ELSE prev[i]]

handleSaveAccountEdit(updatedAcc) ==
    /\ ~crashed
    /\ accounts' = mapUpdatedAcc(accounts, updatedAcc)
    /\ selectedAccount' = NoAccount
    /\ persist(storage, accounts', transactions, exchangeRates)
    /\ lastAction' = Did("handleSaveAccountEdit")
    /\ UNCHANGED <<transactions, exchangeRates, isAnalyzing, assetAnalysis,
                   expenseAnalysis, isImportOpen, wizard, procs, analyses,
                   ratePending, now, arg, res>>

\* handleSave of AccountEditModal: the Save Changes button
handleSave(name, balance, type, currency) ==
    /\ selectedAccount # NoAccount
    /\ handleSaveAccountEdit([selectedAccount EXCEPT
                                 !.name = name,
                                 !.balance = parseFloatOr0(balance),
                                 !.type = type,
                                 !.currency = currency])

\* prev.splice(prev.findIndex(a => a.id === id), 1): the first account of
\* that id is removed, and the last account when there is none (index -1)
spliceAtFindIndex(prev, id) ==
    LET hits == {i \in 1..Len(prev) : prev[i].id = id}
        k == IF hits = {} THEN Len(prev)
             ELSE CHOOSE i \in hits : \A j \in hits : i <= j
    IN  SubSeq(prev, 1, k - 1) \o SubSeq(prev, k + 1, Len(prev))

\* prev.filter(a => a.id !== id)
filterOutId(prev, id) ==
    LET Other(a) == a.id # id
    IN  SeqFilter(Other, prev)

\* a delete that leaves the selection as it is
selectionKept(selected, id) == selected

\* if (selectedAccount?.id === id) setSelectedAccount(null)
selectionAfterDelete(selected, id) ==
    IF selected # NoAccount /\ selected.id = id THEN NoAccount ELSE selected

handleDeleteAccount(id) ==
    /\ ~crashed
    /\ accounts' = filterOutId(accounts, id)
    /\ selectedAccount' = selectionAfterDelete(selectedAccount, id)
    /\ persist(storage, accounts', transactions, exchangeRates)
    /\ lastAction' = Did("handleDeleteAccount")
    /\ UNCHANGED <<transactions, exchangeRates, isAnalyzing, assetAnalysis,
                   expenseAnalysis, isImportOpen, wizard, procs, analyses,
                   ratePending, now, arg, res>>

\* the edit modal's Delete button
onDeleteClick ==
    /\ selectedAccount # NoAccount
    /\ handleDeleteAccount(selectedAccount.id)

\* the footer's Clear Data button, window.confirm answered yes
handleResetData ==
    /\ ~crashed /\ PageFree
    /\ accounts' = << >>
    /\ transactions' = << >>
    /\ assetAnalysis' = ""
    /\ expenseAnalysis' = ""
    /\ selectedAccount' = NoAccount
    /\ persist(NoSnapshot, accounts', transactions', exchangeRates)
    /\ lastAction' = Did("handleResetData")
    /\ UNCHANGED <<exchangeRates, isAnalyzing, isImportOpen, wizard, procs,
                   analyses, ratePending, now, arg, res>>

\* ExpenseTracker's onClearData, window.confirm answered yes
handleClearTransactions ==
    /\ ~crashed /\ PageFree
    /\ transactions' = << >>
    /\ expenseAnalysis' = ""
    /\ persist(storage, accounts, transactions', exchangeRates)
    /\ lastAction' = Did("handleClearTransactions")
    /\ UNCHANGED <<accounts, exchangeRates, selectedAccount, isAnalyzing,
                   assetAnalysis, isImportOpen, wizard, procs, analyses,
                   ratePending, now, arg, res>>

\* what fetchExchangeRates resolves to: null, or the parsed JSON object
NullRates == [isNull |-> TRUE, table |-> << >>]

RateResponses ==
    { NullRates,
      [isNull |-> FALSE, table |-> << >>],
      [isNull |-> FALSE, table |-> [c \in {"CNY"} |-> 1100]],
      [isNull |-> FALSE, table |-> [c \in {"USD", "HKD"} |->
                                       IF c = "USD" THEN 7800 ELSE 2000]] }

\* a setter that takes the response for the whole table
replaceWholesale(prev, rates) == rates

\* { ...prev, ...rates }
spread(prev, rates) ==
    [c \in (DOMAIN prev) \cup (DOMAIN rates) |->
        IF c \in DOMAIN rates THEN rates[c] ELSE prev[c]]

\* the continuation of refreshRates once fetchExchangeRates has resolved
\* (to null when there is no API key, or the call or the parse fails)
refreshRates(rates) ==
    /\ ~crashed /\ ratePending
    /\ rates \in RateResponses
    /\ ratePending' = FALSE
    /\ IF ~rates.isNull
       THEN /\ exchangeRates' = spread(exchangeRates, rates.table)
            /\ persist(storage, accounts, transactions, exchangeRates')
       ELSE UNCHANGED <<exchangeRates, storage, crashed>>
    /\ lastAction' = Did("refreshRates")
    /\ UNCHANGED <<accounts, transactions, selectedAccount, isAnalyzing,
                   assetAnalysis, expenseAnalysis, isImportOpen, wizard, procs,
                   analyses, now, arg, res>>

RemoveAt(s, i) == SubSeq(s, 1, i - 1) \o SubSeq(s, i + 1, Len(s))

\* the continuation of triggerAutoAnalysis once Promise.all has resolved;
\* analyzePortfolio and analyzeSpending resolve to a non-empty text, also
\* when the oracle call fails or there is no API key
analysisResolved(i) ==
    /\ ~crashed
    /\ i \in 1..Len(analyses)
    /\ assetAnalysis' = IF analyses[i].hasAccounts THEN "asset analysis"
                        ELSE assetAnalysis
    /\ expenseAnalysis' = IF analyses[i].hasTransactions
                          THEN "expense analysis" ELSE expenseAnalysis
    /\ isAnalyzing' = FALSE
    /\ analyses' = RemoveAt(analyses, i)
    /\ lastAction' = Did("triggerAutoAnalysis:resolved")
    /\ UNCHANGED <<accounts, transactions, exchangeRates, selectedAccount,
                   isImportOpen, wizard, procs, ratePending, storage, 
                   now, crashed, arg, res>>

----------------------------------------------------------------------------
(* The ImportWizard component *)

\* the header's Import button and the empty state's Import Data button
openImport ==
    /\ ~crashed /\ PageFree
    /\ isImportOpen' = TRUE
    /\ wizard' = FreshWizard
    /\ lastAction' = Did("openImport")
    /\ UNCHANGED <<accounts, transactions, exchangeRates, selectedAccount,
                   isAnalyzing, assetAnalysis, expenseAnalysis, procs, analyses,
                   ratePending, storage, now, crashed, arg, res>>

\* every invocation in flight belongs to an unmounted instance from now on
detach(ps) == [i \in 1..Len(ps) |-> [ps[i] EXCEPT !.mounted = FALSE]]

\* the backdrop and the X button: setIsImportOpen(false) unmounts the wizard
onClose ==
    /\ ~crashed /\ isImportOpen
    /\ isImportOpen' = FALSE
    /\ wizard' = FreshWizard
    /\ procs' = detach(procs)
    /\ lastAction' = Did("onClose")
    /\ UNCHANGED <<accounts, transactions, exchangeRates, selectedAccount,
                   isAnalyzing, assetAnalysis, expenseAnalysis, analyses,
                   ratePending, storage, now, crashed, arg, res>>

hasData(w) == Len(w.foundAccounts) > 0 \/ Len(w.foundTransactions) > 0

\* the file input's onChange, up to the first await
handleFileChange ==
    /\ ~crashed /\ isImportOpen
    /\ ~hasData(wizard) /\ ~wizard.isProcessing
    /\ Len(procs) < MaxProcs
    /\ wizard' = [FreshWizard EXCEPT !.isProcessing = TRUE]
    /\ procs' = Append(procs, [pc |-> "reading",
                               mounted |-> TRUE, attempt |-> 0,
                               errs |-> << >>, delays |-> << >>])
    /\ lastAction' = Did("handleFileChange")
    /\ UNCHANGED <<accounts, transactions, exchangeRates, selectedAccount,
                   isAnalyzing, assetAnalysis, expenseAnalysis, isImportOpen,
                   analyses, ratePending, storage, now, crashed, arg,
                   res>>

\* a state setter that reaches the wizard on screen whoever calls it
setStateOfAnyInstance(p, w) == w

\* a state setter of the wizard, called from invocation p: React drops the
\* update when p's instance is no longer mounted
setState(p, w) == IF p.mounted THEN w ELSE wizard

\* a catch block that shows the message and leaves isProcessing as it is
caughtStillProcessing(p, message) ==
    setState(p, [wizard EXCEPT !.errorMsg = message])

\* the catch block of handleFileChange
caught(p, message) ==
    setState(p, [wizard EXCEPT !.errorMsg = message, !.isProcessing = FALSE])

\* the preview is set and isProcessing is left as it is
foundStillProcessing(p, accs, txs) ==
    setState(p, [wizard EXCEPT !.foundAccounts = accs,
                               !.foundTransactions = txs])

\* the preview is set and processing ends
found(p, accs, txs) ==
    setState(p, [wizard EXCEPT !.foundAccounts = accs,
                               !.foundTransactions = txs,
                               !.isProcessing = FALSE])

AppFrame ==
    UNCHANGED <<accounts, transactions, exchangeRates, selectedAccount,
                isAnalyzing, assetAnalysis, expenseAnalysis, isImportOpen,
                analyses, ratePending, storage, now, crashed, arg, res>>

\* the rows below the header row of the first sheet (rawData has one more)
ExcelSheets ==
    { << >>,
      << [name |-> "Mox", balance |-> 200, currency |-> "USD"] >>,
      << [name |-> "hsbc", balance |-> 0, currency |-> ""] >> }

\* file.arrayBuffer() rejects
readRejected(i) ==
    /\ ~crashed
    /\ i \in 1..Len(procs) /\ procs[i].pc = "reading"
    /\ wizard' = caught(procs[i], "Failed to process file.")
    /\ procs' = RemoveAt(procs, i)
    /\ lastAction' = Did("handleFileChange:catch")
    /\ AppFrame

\* file.arrayBuffer() resolves and the file is no PDF: handleExcelImport
handleExcelImport(i, rows) ==
    /\ ~crashed
    /\ i \in 1..Len(procs) /\ procs[i].pc = "reading"
    /\ wizard' = IF Len(rows) < 1
                 THEN caught(procs[i], "Excel file seems empty.")
                 ELSE IF Len(parsedAccounts(rows, now)) = 0
                 THEN caught(procs[i], "No valid assets found in Excel.")
                 ELSE found(procs[i], parsedAccounts(rows, now),
                            wizard.foundTransactions)
    /\ procs' = RemoveAt(procs, i)
    /\ lastAction' = Did("handleExcelImport")
    /\ AppFrame

\* file.arrayBuffer() resolves and the file is a PDF: extractPdfImages starts
readPdf(i) ==
    /\ ~crashed
    /\ i \in 1..Len(procs) /\ procs[i].pc = "reading"
    /\ procs' = [procs EXCEPT ![i].pc = "raster"]
    /\ lastAction' = Did("extractPdfImages")
    /\ UNCHANGED wizard
    /\ AppFrame

\* how extractPdfImages and the entry of smartParseDocument can end:
\* extractPdfImages throws; getAiClient() gives null (no API key) and
\* smartParseDocument throws; or the first oracle call is made
RasterOutcomes == {"throw", "noClient", "call"}

extractPdfImages(i, outcome) ==
    /\ ~crashed
    /\ i \in 1..Len(procs) /\ procs[i].pc = "raster"
    /\ IF outcome = "throw"
       THEN /\ wizard' = caught(procs[i], "Invalid PDF structure.")
            /\ procs' = RemoveAt(procs, i)
            /\ lastAction' = Did("extractPdfImages:throw")
       ELSE IF outcome = "noClient"
       THEN /\ wizard' = caught(procs[i], "AI Client unavailable")
            /\ procs' = RemoveAt(procs, i)
            /\ lastAction' = [Did("smartParseDocument:throw") EXCEPT
                                 !.threw = TRUE]
       ELSE /\ procs' = [procs EXCEPT ![i].pc = "oracle"]
            /\ UNCHANGED wizard
            /\ lastAction' = Did("smartParseDocument")
    /\ AppFrame

\* the JSON the oracle answers with, before normalisation
RawHSBC ==
    [name |-> "HSBC", balance |-> 200, currency |-> "HKD", type |-> "Bank"]

RawBroker ==
    [name |-> "Futu", balance |-> -500, currency |-> "HK$",
     type |-> "Brokerage"]

RawZero ==
    [name |-> Undefined, balance |-> 0, currency |-> "HKD", type |-> "Bank"]

RawLunch ==
    [date |-> "2024-01-02", description |-> "Lunch", category |-> "Dining",
     amount |-> -50]

RawMisc ==
    [date |-> Undefined, description |-> Undefined, category |-> "Misc",
     amount |-> 300]

Response(isArr, accs, txs) ==
    [accountsIsArray |-> isArr, accounts |-> accs,
     transactionsIsArray |-> TRUE, transactions |-> txs]

OracleResponses ==
    { Response(TRUE, <<RawHSBC>>, <<RawLunch>>),
      Response(TRUE, <<RawZero, RawBroker>>, << >>),
      Response(TRUE, <<RawZero>>, <<RawLunch, RawMisc>>),
      Response(TRUE, <<RawZero>>, << >>),
      Response(FALSE, << >>, <<RawLunch>>) }

\* how an oracle call fails: with a rate-limit signal (status 429, or a
\* message holding 429, quota or RESOURCE_EXHAUSTED), or otherwise
ErrorKinds == {"quota", "fatal"}

isQuotaError(kind) == kind = "quota"

\* a retry on every failure
shouldRetryAnyError(kind, attempt) == attempt < maxRetries - 1

\* isQuotaError && attempt < maxRetries - 1
shouldRetry(kind, attempt) == isQuotaError(kind) /\ attempt < maxRetries - 1

\* 2000 * Math.pow(2, attempt)
backoffDelay(attempt) == BackoffBase * Pow2(attempt)

\* the oracle call of invocation i resolves and its text parses
oracleResolved(i, data) ==
    /\ ~crashed
    /\ i \in 1..Len(procs) /\ procs[i].pc = "oracle"
    /\ LET accs == ProcessAccounts(data)
           txs == ProcessTransactions(data, now)
       IN  wizard' = IF Len(accs) = 0 /\ Len(txs) = 0
                     THEN caught(procs[i],
                                 "AI couldn't find any financial data.")
                     ELSE found(procs[i], accs, txs)
    /\ procs' = RemoveAt(procs, i)
    /\ lastAction' = [Did("smartParseDocument:return") EXCEPT
                         !.errs = procs[i].errs, !.delays = procs[i].delays]
    /\ AppFrame

\* the oracle call of invocation i fails (or its text does not parse): the
\* catch block of the retry loop, and past the loop the final throw
oracleRejected(i, kind) ==
    /\ ~crashed
    /\ i \in 1..Len(procs) /\ procs[i].pc = "oracle"
    /\ LET p == procs[i]
           errs == Append(p.errs, kind)
       IN  IF shouldRetry(kind, p.attempt)
           THEN /\ procs' = [procs EXCEPT
                                ![i].pc = "backoff",
                                ![i].errs = errs,
                                ![i].delays = Append(p.delays,
                                                     backoffDelay(p.attempt))]
                /\ UNCHANGED wizard
                /\ lastAction' = Did("smartParseDocument:catch")
           ELSE /\ wizard' = caught(p,
                                IF isQuotaError(kind)
                                THEN "API Limit Exceeded. Please wait a moment and try again."
                                ELSE "fetch failed")
                /\ procs' = RemoveAt(procs, i)
                /\ lastAction' = [Did("smartParseDocument:throw") EXCEPT
                                     !.threw = TRUE, !.errs = errs,
                                     !.delays = p.delays]
    /\ AppFrame

\* the backoff timer of invocation i fires: continue, attempt++, next call
backoffElapsed(i) ==
    /\ ~crashed
    /\ i \in 1..Len(procs) /\ procs[i].pc = "backoff"
    /\ procs[i].attempt + 1 < maxRetries
    /\ procs' = [procs EXCEPT ![i].pc = "oracle",
                              ![i].attempt = procs[i].attempt + 1]
    /\ lastAction' = Did("smartParseDocument:retry")
    /\ UNCHANGED wizard
    /\ AppFrame

\* what Math.random().toString(36).substr(2, 9) can give
RandomSuffixes == {"k3x", "p9q"}

\* a handleConfirm that hands over the accounts of the preview only
previewedAccountsOnly(w) ==
    [accounts |-> w.foundAccounts, transactions |-> << >>]

\* { accounts: foundAccounts, transactions: foundTransactions }
previewed(w) ==
    [accounts |-> w.foundAccounts, transactions |-> w.foundTransactions]

\* handleConfirm: onImportSmart(previewed), i.e. handleImportSmart up to the
\* await inside triggerAutoAnalysis, then onClose()
handleConfirm(rnds) ==
    /\ ~crashed /\ isImportOpen /\ hasData(wizard)
    /\ rnds \in [1..Len(wizard.foundAccounts) -> RandomSuffixes]
    /\ LET data == previewed(wizard)
           nextAccounts == IF Len(data.accounts) > 0
                           THEN mergeImportedAccounts(accounts, data.accounts,
                                                      now, rnds)
                           ELSE accounts
           nextTransactions == mergeImportedTransactions(transactions,
                                                         data.transactions)
       IN  /\ Len(nextAccounts) <= MaxAccounts
           /\ Len(nextTransactions) <= MaxTransactions
           /\ accounts' = nextAccounts
           /\ transactions' = nextTransactions
           /\ IF Len(nextAccounts) = 0 /\ Len(nextTransactions) = 0
              THEN UNCHANGED <<isAnalyzing, analyses>>
              ELSE /\ isAnalyzing' = TRUE
                   /\ analyses' = Append(analyses,
                         [hasAccounts |-> Len(nextAccounts) > 0,
                          hasTransactions |-> Len(nextTransactions) > 0])
    /\ persist(storage, accounts', transactions', exchangeRates)
    /\ isImportOpen' = FALSE
    /\ wizard' = FreshWizard
    /\ procs' = detach(procs)
    /\ lastAction' = Did("handleConfirm")
    /\ UNCHANGED <<exchangeRates, selectedAccount, assetAnalysis,
                   expenseAnalysis, ratePending, now, arg, res>>

----------------------------------------------------------------------------
(* The program *)

Next ==
    \/ Tick
    \/ \E n \in AddNames, b \in AddBalances, c \in AddCurrencies :
          /\ Len(accounts) < MaxAccounts
          /\ handleAddAccount(n, numberInputValue(b), c)
    \/ \E i \in 1..MaxAccounts : onAccountClick(i)
    \/ closeEditModal
    \/ \E n \in EditNames, b \in EditBalances, t \in EditTypes,
          c \in EditCurrencies : handleSave(n, b, t, c)
    \/ onDeleteClick
    \/ handleResetData
    \/ handleClearTransactions
    \/ \E r \in RateResponses : refreshRates(r)
    \/ \E i \in 1..MaxAnalyses : analysisResolved(i)
    \/ openImport
    \/ onClose
    \/ handleFileChange
    \/ \E i \in 1..MaxProcs : readRejected(i)
    \/ \E i \in 1..MaxProcs, rows \in ExcelSheets : handleExcelImport(i, rows)
    \/ \E i \in 1..MaxProcs : readPdf(i)
    \/ \E i \in 1..MaxProcs, o \in RasterOutcomes : extractPdfImages(i, o)
    \/ \E i \in 1..MaxProcs, d \in OracleResponses : oracleResolved(i, d)
    \/ \E i \in 1..MaxProcs, k \in ErrorKinds : oracleRejected(i, k)
    \/ \E i \in 1..MaxProcs : backoffElapsed(i)
    \/ \E rnds \in UNION {[1..n -> RandomSuffixes] : n \in 0..MaxAccounts} :
          /\ Len(analyses) < MaxAnalyses
          /\ handleConfirm(rnds)

Spec == Init /\ [][Next]_vars

----------------------------------------------------------------------------
(* The pure computations, each applied once to an input drawn in Init *)

\* the sequences over S of length at most n
SeqsUpTo(S, n) == UNION {[1..k -> S] : k \in 0..n}

AppVars ==
    <<accounts, transactions, exchangeRates, selectedAccount, isAnalyzing,
      assetAnalysis, expenseAnalysis, isImportOpen, wizard, procs, analyses,
      ratePending, storage, now, crashed, lastAction>>

\* accounts a ledger can hold: names that differ in case only, and names
\* that are equal, are both possible (the quick-add form checks neither)
LedgerAccounts ==
    { [id |-> "a1", name |-> "hsbc", balance |-> 100, currency |-> "HKD",
       type |-> "Bank"],
      [id |-> "a2", name |-> "Futu", balance |-> -500, currency |-> "USD",
       type |-> "Investment"],
      [id |-> "a3", name |-> "Hsbc", balance |-> 0, currency |-> "CNY",
       type |-> "Personal/Other"] }

\* drafts the wizard can hand over: extracted by the oracle (no id) or
\* parsed from a spreadsheet (an id of its own); every draft has a name
DraftAccounts ==
    { [id |-> Undefined, name |-> "HSBC", balance |-> 200,
       currency |-> "USD", type |-> "Digital Wallet"],
      [id |-> "gen-0-0", name |-> "Mox", balance |-> 50, currency |-> "HKD",
       type |-> "Digital Wallet"],
      [id |-> Undefined, name |-> "MOX", balance |-> -70, currency |-> "CNY",
       type |-> "Bank"] }

MergeInputs ==
    { [accounts |-> accs, drafts |-> ds, now |-> t, rnds |-> rs] :
        accs \in SeqsUpTo(LedgerAccounts, MaxLen),
        ds \in SeqsUpTo(DraftAccounts, MaxLen),
        t \in 0..MaxClock,
        rs \in [1..MaxLen -> RandomSuffixes] }

InitMerge ==
    /\ Mounted(NoSnapshot)
    /\ arg \in MergeInputs
    /\ res = << >>

\* the forEach of handleImportSmart on the input drawn
importAccounts ==
    /\ res = << >>
    /\ res' = << mergeImportedAccounts(arg.accounts, arg.drafts, arg.now,
                                        arg.rnds) >>
    /\ UNCHANGED AppVars
    /\ UNCHANGED arg

SpecMerge == InitMerge /\ [][importAccounts]_vars

----------------------------------------------------------------------------
(* The merge on drafts of any kind: handleImportSmart takes Partial<Account>
   records, whose name may be missing *)

AnyDraftAccounts ==
    DraftAccounts \cup
    { [id |-> Undefined, name |-> Undefined, balance |-> 300,
       currency |-> "HKD", type |-> "Bank"] }

InitMergeAny ==
    /\ Mounted(NoSnapshot)
    /\ arg \in { [accounts |-> accs, drafts |-> ds, now |-> 0, rnds |-> rs] :
                   accs \in SeqsUpTo(LedgerAccounts, MaxLen),
                   ds \in SeqsUpTo(AnyDraftAccounts, MaxLen + 1),
                   rs \in [1..(MaxLen + 1) -> {"k3x"}] }
    /\ res = << >>

SpecMergeAny == InitMergeAny /\ [][importAccounts]_vars

----------------------------------------------------------------------------
(* The totals memo on its own *)

TotalsAccounts ==
    { [id |-> "a1", name |-> "hsbc", balance |-> b, currency |-> c,
       type |-> t] :
        b \in {-500, 0, 100}, c \in {"HKD", "CNY", "USD", "JPY"},
        t \in {"Bank", "Investment"} }

\* rate tables the App can hold: the defaults, a stored table of two
\* currencies, a stored table of one, and tables refreshed by the oracle,
\* whose response is merged as it is parsed (rates of 0 and below included)
TotalsRates ==
    { DEFAULT_RATES,
      [c \in {"HKD", "CNY"} |-> DEFAULT_RATES[c]],
      [c \in {"HKD"} |-> DEFAULT_RATES[c]],
      spread(DEFAULT_RATES, [c \in {"USD"} |-> 7800]),
      spread(DEFAULT_RATES, [c \in {"USD", "CNY"} |-> 0]),
      spread(DEFAULT_RATES, [c \in {"USD", "CNY"} |-> -DEFAULT_RATES[c]]) }

TotalsInputs ==
    { [accounts |-> accs, exchangeRates |-> rates, baseCurrency |-> base] :
        accs \in SeqsUpTo(TotalsAccounts, MaxLen),
        rates \in TotalsRates,
        base \in {"HKD", "CNY"} }

InitTotals ==
    /\ Mounted(NoSnapshot)
    /\ arg \in TotalsInputs
    /\ res = << >>

\* a render on the input drawn: the totals memo of App, then the totalData
\* memo of the chart
computeTotals ==
    /\ res = << >>
    /\ res' = << totals(arg.accounts, arg.exchangeRates, arg.baseCurrency),
                 totalData(arg.accounts, arg.exchangeRates,
                           arg.baseCurrency) >>
    /\ UNCHANGED AppVars
    /\ UNCHANGED arg

SpecTotals == InitTotals /\ [][computeTotals]_vars

----------------------------------------------------------------------------
(* The accounts initializer on its own *)

\* elements a stored accounts array can hold
StoredAccounts ==
    { NullElement,
      JsonAccount([id |-> "acc_1", name |-> "hsbc", type |-> "Investment",
                   currency |-> "USD", balance |-> 100]),
      [isNull |-> FALSE, id |-> Undefined, name |-> Undefined,
       type |-> "Brokerage", currency |-> "HK$", balance |-> JsonString("abc")],
      [isNull |-> FALSE, id |-> "acc_2", name |-> "Futu",
       type |-> Undefined, currency |-> Undefined, balance |-> JsonAbsent],
      [isNull |-> FALSE, id |-> "acc_3", name |-> "Mox",
       type |-> "Digital Wallet", currency |-> "CNY",
       balance |-> JsonString("12abc")] }

\* elements a stored transactions array can hold: a transaction as the
\* persist effect writes it, and one whose category is no ExpenseCategory
StoredTransactions ==
    { [id |-> "tx-0-0", date |-> "2024-01-02", description |-> "Lunch",
       category |-> "Dining", amount |-> -50],
      [id |-> "tx-0-1", date |-> "2024-01-03", description |-> "Fee",
       category |-> "Misc", amount |-> -20] }

\* what localStorage can hold under STORAGE_KEY when the App starts: nothing,
\* text that is no JSON, the JSON null, an object whose accounts field is
\* missing or no array, an object with an accounts array, an object with a
\* transactions array
LoadInputs ==
    { NoSnapshot,
      [NoSnapshot EXCEPT !.kind = "garbage"],
      [NoSnapshot EXCEPT !.kind = "null"],
      [NoSnapshot EXCEPT !.kind = "json"] }
    \cup { [NoSnapshot EXCEPT !.kind = "json",
                              !.accounts = [isArray |-> TRUE, items |-> items]] :
             items \in SeqsUpTo(StoredAccounts, MaxLen) }
    \cup { [NoSnapshot EXCEPT !.kind = "json",
                              !.transactions = [isArray |-> TRUE,
                                                items |-> items]] :
             items \in SeqsUpTo(StoredTransactions, MaxLen) }

InitLoad ==
    /\ Mounted(NoSnapshot)
    /\ arg \in { [saved |-> saved, now |-> t] :
                   saved \in LoadInputs, t \in 0..MaxClock }
    /\ res = << >>

\* the accounts initializer and the transactions initializer run on the
\* snapshot drawn
loadAccounts ==
    /\ res = << >>
    /\ res' = << LoadAccounts(arg.saved, arg.now),
                 LoadTransactions(arg.saved) >>
    /\ UNCHANGED AppVars
    /\ UNCHANGED arg

SpecLoad == InitLoad /\ [][loadAccounts]_vars

----------------------------------------------------------------------------
(* The ledger handlers on their own: quick-add, save of an edit and delete,
   called with any argument on any ledger a snapshot can load, with or
   without an account selected *)

\* accounts a snapshot can hold: those of LedgerAccounts and a second record
\* of id a1 (stored records that share an id are loaded as they are)
StoreAccounts ==
    LedgerAccounts \cup
    { [id |-> "a1", name |-> "Mox", balance |-> 50, currency |-> "CNY",
       type |-> "Digital Wallet"] }

StoreTransactions ==
    { << >>,
      << [id |-> "tx-0-0", date |-> "2024-01-02", description |-> "Lunch",
          category |-> "Dining", amount |-> -50] >> }

\* texts typed into the amount field of the quick-add form
LedgerBalanceTexts == {"", "abc", "100", "-500"}

\* ids the handlers are called with: held by one account, by two, by none
LedgerIds == {"a1", "a2", "zz"}

\* records handed to handleSaveAccountEdit
UpdatedAccounts ==
    { [id |-> i, name |-> "", balance |-> -500, currency |-> "USD",
       type |-> "Investment"] : i \in LedgerIds }

InitLedger ==
    \E accs \in SeqsUpTo(StoreAccounts, MaxLen), txs \in StoreTransactions :
        /\ Mounted(Snapshot(accs, txs, DEFAULT_RATES))
        /\ arg = << >>
        /\ res = << >>

NextLedger ==
    \/ \E n \in AddNames, b \in LedgerBalanceTexts, c \in AddCurrencies :
          /\ Len(accounts) <= MaxLen
          /\ handleAddAccount(n, numberInputValue(b), c)
    \/ \E u \in UpdatedAccounts : handleSaveAccountEdit(u)
    \/ \E id \in LedgerIds : handleDeleteAccount(id)
    \/ \E i \in 1..(MaxLen + 1) : onAccountClick(i)

SpecLedger == InitLedger /\ [][NextLedger]_vars

----------------------------------------------------------------------------
(* The ledger handlers when localStorage runs out of room *)

\* the snapshot the App starts on fits into localStorage, and at most one
\* more account or transaction does
InitPersist ==
    \E accs \in SeqsUpTo(StoreAccounts, MaxLen), txs \in StoreTransactions,
       room \in 0..1 :
        /\ Mounted(Snapshot(accs, txs, DEFAULT_RATES))
        /\ arg = [quota |-> Len(accs) + Len(txs) + room]
        /\ res = << >>

SpecPersist == InitPersist /\ [][NextLedger]_vars

----------------------------------------------------------------------------
(* Imports confirmed one after the other: the wizard is opened again, a
   spreadsheet read and the preview confirmed while the analysis of the
   import before is still outstanding *)

MaxOverlap == 2

NextOverlap ==
    \/ openImport
    \/ onClose
    \/ handleFileChange
    \/ \E i \in 1..MaxProcs, rows \in ExcelSheets : handleExcelImport(i, rows)
    \/ \E rnds \in UNION {[1..n -> RandomSuffixes] : n \in 0..MaxAccounts} :
          /\ Len(analyses) < MaxOverlap
          /\ handleConfirm(rnds)
    \/ \E i \in 1..MaxOverlap : analysisResolved(i)
    \/ handleClearTransactions
    \/ handleResetData
    \/ Tick

SpecOverlap == Init /\ [][NextOverlap]_vars

----------------------------------------------------------------------------
(* cleanAmount on its own *)

CellChars == {"1", "5", ".", "-", "$", ",", " "}

\* what a cell of the balance column can hold: nothing, a number, a short
\* string over CellChars, or a formatted amount
CellValues ==
    { CellNull, CellNumber(200), CellNumber(-70),
      CellText(<<"H", "K", "$", "1", ",", "2", "3", "4", ".", "5", "0">>),
      CellText(<<"(", "5", "0", "0", ")">>),
      CellText(<<"a", "b", "c">>) }
    \cup { CellText(chars) : chars \in SeqsUpTo(CellChars, MaxCell) }

InitClean ==
    /\ Mounted(NoSnapshot)
    /\ arg \in CellValues
    /\ res = << >>

\* cleanAmount is called on the cell drawn
cleanCell ==
    /\ res = << >>
    /\ res' = << cleanAmount(arg) >>
    /\ UNCHANGED AppVars
    /\ UNCHANGED arg

SpecClean == InitClean /\ [][cleanCell]_vars

----------------------------------------------------------------------------
(* Steps of the program, for the properties below *)

ConfirmStep ==
    \E rnds \in UNION {[1..n -> RandomSuffixes] : n \in 0..MaxAccounts} :
        handleConfirm(rnds)

\* a continuation of the handleFileChange invocation i
InvocationStep(i) ==
    \/ readRejected(i)
    \/ \E rows \in ExcelSheets : handleExcelImport(i, rows)
    \/ readPdf(i)
    \/ \E o \in RasterOutcomes : extractPdfImages(i, o)
    \/ \E d \in OracleResponses : oracleResolved(i, d)
    \/ \E k \in ErrorKinds : oracleRejected(i, k)
    \/ backoffElapsed(i)

\* a step of an import attempt other than Confirm
AttemptStep ==
    \/ openImport
    \/ handleFileChange
    \/ \E i \in 1..MaxProcs : InvocationStep(i)
    \/ onClose

\* a handler that changes the accounts or the transactions
MutatingStep ==
    \/ \E n \in AddNames, b \in AddBalances, c \in AddCurrencies :
          handleAddAccount(n, numberInputValue(b), c) /\ accounts' # accounts
    \/ \E n \in EditNames, b \in EditBalances, t \in EditTypes,
          c \in EditCurrencies : handleSave(n, b, t, c)
    \/ onDeleteClick
    \/ handleResetData
    \/ handleClearTransactions
    \/ ConfirmStep

----------------------------------------------------------------------------
(* C1: merging the imported accounts *)

\* draft k is aimed at the existing account i: i is the first account of
\* the ledger whose name equals the draft's, letter case ignored
Hits(old, drafts, i, k) ==
    /\ Lower(old[i].name) = Lower(drafts[k].name)
    /\ \A j \in 1..(i - 1) : Lower(old[j].name) # Lower(drafts[k].name)

\* draft k meets no existing account and no earlier draft of its name
Opens(old, drafts, k) ==
    /\ \A i \in 1..Len(old) : Lower(old[i].name) # Lower(drafts[k].name)
    /\ \A h \in 1..(k - 1) : Lower(drafts[h].name) # Lower(drafts[k].name)

\* the last draft that bears the name of draft k
LastOfName(drafts, k) ==
    CHOOSE h \in k..Len(drafts) :
        /\ Lower(drafts[h].name) = Lower(drafts[k].name)
        /\ \A g \in (h + 1)..Len(drafts) :
              Lower(drafts[g].name) # Lower(drafts[k].name)

\* the drafts that open a new account, in the order they are given
RECURSIVE Openers(_, _, _)
Openers(old, drafts, k) ==
    IF k > Len(drafts) THEN << >>
    ELSE IF Opens(old, drafts, k) THEN <<k>> \o Openers(old, drafts, k + 1)
         ELSE Openers(old, drafts, k + 1)

\* C1: every existing account keeps its position, id, name, type and
\* currency; its balance is overwritten by the drafts that bear its name
\* (letter case ignored) and by nothing else, and such drafts create no
\* account; every draft that matches no account is appended, in order, as a
\* new account with a minted id that is not the draft's own; and HSBC/200
\* imported over hsbc/100 gives the one account hsbc with balance 200.
C1_MergeByName ==
    res # << >> =>
        LET old == arg.accounts
            drafts == arg.drafts
            out == res[1]
            news == Openers(old, drafts, 1)
        IN  /\ Len(out) = Len(old) + Len(news)
            /\ \A i \in 1..Len(old) :
                  /\ out[i].id = old[i].id
                  /\ out[i].name = old[i].name
                  /\ out[i].type = old[i].type
                  /\ out[i].currency = old[i].currency
                  /\ IF \E k \in 1..Len(drafts) : Hits(old, drafts, i, k)
                     THEN \E k \in 1..Len(drafts) :
                            /\ Hits(old, drafts, i, k)
                            /\ LastOfName(drafts, k) = k
                            /\ out[i].balance = drafts[k].balance
                     ELSE out[i].balance = old[i].balance
            /\ \A m \in 1..Len(news) :
                  LET k == news[m]
                      new == out[Len(old) + m]
                  IN  /\ new.id = mintId(arg.now, arg.rnds[k])
                      /\ new.id # drafts[k].id
                      /\ new.name = drafts[k].name
                      /\ new.currency = drafts[k].currency
                      /\ new.type = drafts[k].type
                      /\ new.balance = drafts[LastOfName(drafts, k)].balance
            /\ (/\ Len(old) = 1 /\ old[1].name = "hsbc"
                /\ old[1].balance = 100
                /\ Len(drafts) = 1 /\ drafts[1].name = "HSBC"
                /\ drafts[1].balance = 200)
               => (/\ Len(out) = 1 /\ out[1].name = "hsbc"
                   /\ out[1].balance = 200)

\* a merge that overwrote a balance across letter case and appended a draft
C1_Witness ==
    /\ res # << >>
    /\ Len(res[1]) > Len(arg.accounts)
    /\ \E i \in 1..Len(arg.accounts), k \in 1..Len(arg.drafts) :
          /\ arg.accounts[i].name # arg.drafts[k].name
          /\ Lower(arg.accounts[i].name) = Lower(arg.drafts[k].name)
          /\ res[1][i].balance = arg.drafts[k].balance
          /\ res[1][i].balance # arg.accounts[i].balance

----------------------------------------------------------------------------
(* C2: the transactions of a confirmed import *)

\* C2: Confirm puts the previewed transactions, in their order, in front of
\* the transactions there were, which stay as they are and in their order;
\* nothing is left out as a duplicate, so the count grows by the number of
\* previewed transactions.
C2_Prepend ==
    [][ConfirmStep =>
          /\ transactions' = wizard.foundTransactions \o transactions
          /\ Len(transactions') =
                Len(transactions) + Len(wizard.foundTransactions)]_vars

\* the same statement was imported twice and is there twice
C2_Witness ==
    /\ lastAction.op = "handleConfirm"
    /\ Len(transactions) = 2
    /\ transactions[1] = transactions[2]

----------------------------------------------------------------------------
(* C3: how the totals classify an account *)

\* the sum of F over the accounts of a list
RECURSIVE SumOver(_, _)
SumOver(F(_), accs) ==
    IF accs = << >> THEN 0 ELSE F(Head(accs)) + SumOver(F, Tail(accs))

\* C3: an Investment account with a balance above 0 adds its converted
\* balance to the investment bucket; any other account with a balance below
\* 0, an Investment account included, adds the absolute converted balance to
\* the liabilities; every other account adds to a cash bucket (an anchor
\* balance as it is, a foreign one converted).  So {HKD, Investment, -500}
\* gives liabilities 500 and investments 0.
C3_Classification ==
    res # << >> =>
        LET rates == arg.exchangeRates
            IsInvestment(a) == a.type = INVESTMENT /\ a.balance > 0
            IsLiability(a) == ~IsInvestment(a) /\ a.balance < 0
            IsCash(a) == ~IsInvestment(a) /\ ~IsLiability(a)
            ToInvestment(a) == IF IsInvestment(a) THEN balInHKD(a, rates)
                               ELSE 0
            ToLiability(a) == IF IsLiability(a) THEN Abs(balInHKD(a, rates))
                              ELSE 0
            ToCash(a) == IF ~IsCash(a) THEN 0
                         ELSE IF a.currency = HKD THEN a.balance * RateScale
                         ELSE balInHKD(a, rates)
        IN  /\ res[1].investments = SumOver(ToInvestment, arg.accounts)
            /\ res[1].liabilities = SumOver(ToLiability, arg.accounts)
            /\ res[1].hkdCash + res[1].foreignCash
                  = SumOver(ToCash, arg.accounts)

----------------------------------------------------------------------------
(* C4: nothing is committed before Confirm *)

\* C4: no step of an import attempt other than Confirm changes the accounts,
\* the transactions or their snapshot, and Confirm commits the whole
\* preview: all its transactions, and every account of it is in the ledger
\* with the balance the preview gives it.
C4_NoCommitBeforeConfirm ==
    [][/\ AttemptStep => UNCHANGED <<accounts, transactions, storage>>
       /\ ConfirmStep =>
            LET batch == wizard.foundAccounts
            IN  /\ transactions' = wizard.foundTransactions \o transactions
                /\ \A k \in 1..Len(batch) :
                      \E i \in 1..Len(accounts') :
                          /\ Lower(accounts'[i].name) = Lower(batch[k].name)
                          /\ accounts'[i].balance =
                                batch[LastOfName(batch, k)].balance]_vars

\* a preview of an account and a transaction is shown over an empty ledger
C4_Witness ==
    /\ isImportOpen
    /\ Len(wizard.foundAccounts) > 0
    /\ Len(wizard.foundTransactions) > 0
    /\ accounts = << >>
    /\ transactions = << >>
    /\ storage = Snapshot(<< >>, << >>, exchangeRates)

----------------------------------------------------------------------------
(* C5: the reset *)

\* C5: once the reset has run, with the persist it triggers, the accounts
\* and the transactions are empty and no snapshot is stored under the key.
C5_ResetClearsSnapshot ==
    [][handleResetData =>
          /\ accounts' = << >>
          /\ transactions' = << >>
          /\ storage' = NoSnapshot]_vars

----------------------------------------------------------------------------
(* C6: the snapshot follows the state *)

\* C6: whenever the persist effect has run, the stored accounts,
\* transactions and exchange rates are the ones in memory.
C6_PersistFollowsMutation ==
    storage = Snapshot(accounts, transactions, exchangeRates)

\* a confirmed import of an account and a transaction has been persisted
C6_Witness ==
    /\ lastAction.op = "handleConfirm"
    /\ Len(accounts) > 0
    /\ Len(transactions) > 0
    /\ storage.transactions.items = transactions
    /\ Len(storage.accounts.items) = Len(accounts)

----------------------------------------------------------------------------
(* C7: the startup load of the accounts *)

\* an account as the type Account declares it
WellFormedAccount(a) ==
    /\ a.id # Undefined /\ a.id # ""
    /\ a.name # Undefined /\ a.name # ""
    /\ a.type \in AccountType
    /\ a.currency \in Currency
    /\ a.balance \in Int

----------------------------------------------------------------------------
(* C8: the retry policy of smartParseDocument *)

\* the first n delays of the backoff: 2 s, then 4 s
Backoffs(n) == SubSeq(<<2000, 4000>>, 1, n)

AllQuota(errs) == \A j \in 1..Len(errs) : errs[j] = "quota"

\* C8: a call is repeated only after a rate-limit failure, after 2 s the
\* first time and 4 s the second; there are at most 3 calls; the failure of
\* the third call, and any other failure, is followed by no delay and no
\* call: smartParseDocument throws.
C8_RetryPolicy ==
    /\ \A i \in 1..Len(procs) :
          LET p == procs[i]
          IN  p.pc \in {"oracle", "backoff"} =>
                /\ p.attempt + 1 <= 3
                /\ AllQuota(p.errs)
                /\ p.delays = Backoffs(Len(p.errs))
                /\ Len(p.errs) = IF p.pc = "oracle" THEN p.attempt
                                 ELSE p.attempt + 1
                /\ p.pc = "backoff" => p.attempt + 1 < 3
    /\ lastAction.op = "smartParseDocument:return" =>
          /\ Len(lastAction.errs) + 1 <= 3
          /\ AllQuota(lastAction.errs)
          /\ lastAction.delays = Backoffs(Len(lastAction.errs))
    /\ (lastAction.op = "smartParseDocument:throw" /\ lastAction.errs # << >>)
          => LET n == Len(lastAction.errs)
             IN  /\ lastAction.threw
                 /\ n <= 3
                 /\ AllQuota(SubSeq(lastAction.errs, 1, n - 1))
                 /\ lastAction.delays = Backoffs(n - 1)
                 /\ lastAction.errs[n] = "quota" => n = 3
    /\ \A i \in 1..Len(procs) :
          procs[i].pc \notin {"oracle", "backoff"} => procs[i].errs = << >>

\* three calls failed on the rate limit, 2 s and 4 s apart, and the third
\* failure was thrown
C8_Witness ==
    /\ lastAction.op = "smartParseDocument:throw"
    /\ lastAction.threw
    /\ lastAction.errs = <<"quota", "quota", "quota">>
    /\ lastAction.delays = <<2000, 4000>>

----------------------------------------------------------------------------
(* C9: the controls while a request is outstanding *)

\* C9: no handler that changes the accounts or the transactions runs while
\* an import invocation or an analysis is outstanding.
C9_MutualExclusion ==
    [][MutatingStep => (procs = << >> /\ analyses = << >>)]_vars

----------------------------------------------------------------------------
(* C10: closing the wizard while an import is in flight *)

\* C10: a step of an invocation whose wizard has been closed changes neither
\* the accounts, the transactions, their snapshot, the wizard on screen, nor
\* the analyses: its result is never previewed, merged or analysed.
C10_CancelledResultDiscarded ==
    [][\A i \in 1..MaxProcs :
          (i <= Len(procs) /\ ~procs[i].mounted /\ InvocationStep(i))
             => UNCHANGED <<accounts, transactions, storage, wizard,
                            isImportOpen, analyses, isAnalyzing,
                            assetAnalysis, expenseAnalysis>>]_vars

\* the oracle's answer arrived after the wizard was closed
C10_Witness ==
    /\ lastAction.op = "smartParseDocument:return"
    /\ ~isImportOpen
    /\ procs = << >>
    /\ wizard = FreshWizard


----------------------------------------------------------------------------
(* C11: account ids are unique within the ledger in every reachable state,
   loaded records whose id was missing included.  Stated on the startup
   load: when the ids that are present in the stored array are pairwise
   distinct, the ids of the loaded list are pairwise distinct.  The map
   callback gives every record without an id the same String(Date.now()),
   so two such records load with one id. *)

UniqueIds(accs) ==
    \A i, j \in 1..Len(accs) : accs[i].id = accs[j].id => i = j

StoredIdsUnique(items) ==
    \A i, j \in 1..Len(items) :
        (Truthy(items[i].id) /\ items[i].id = items[j].id) => i = j

C11_UniqueIds ==
    (res # << >> /\ arg.saved.accounts.isArray
        /\ StoredIdsUnique(arg.saved.accounts.items))
    => UniqueIds(res[1].value)


----------------------------------------------------------------------------
(* C12: quick-add with an absent name, or with an amount that is absent or
   not a number, leaves the account list unchanged; any other quick-add
   appends exactly one account at the end of the list, and the accounts that
   were there keep their content and their order. *)

C12_AddAccount ==
    [][\A n \in AddNames, b \in LedgerBalanceTexts, c \in AddCurrencies :
          handleAddAccount(n, numberInputValue(b), c) =>
             IF n = "" \/ b = "" \/ b \notin NumberTexts
             THEN accounts' = accounts
             ELSE /\ Len(accounts') = Len(accounts) + 1
                  /\ \A i \in 1..Len(accounts) : accounts'[i] = accounts[i]
                  /\ accounts'[Len(accounts')].name = n
                  /\ accounts'[Len(accounts')].currency = c]_vars

\* a quick-add has appended to a ledger that held two accounts
C12_Witness ==
    /\ lastAction.op = "handleAddAccount"
    /\ Len(accounts) > 2
    /\ accounts[Len(accounts)].name = "hsbc"
    /\ accounts[1].id = "a2"


----------------------------------------------------------------------------
(* C13: saving an edit whose id no account has fails with an error and
   leaves the list unchanged; saving any other edit replaces the one record
   of that id in place: the list keeps its length and order and every other
   account is unchanged. *)

C13_UpdateAccount ==
    [][\A u \in UpdatedAccounts :
          handleSaveAccountEdit(u) =>
             IF \A i \in 1..Len(accounts) : accounts[i].id # u.id
             THEN lastAction'.threw /\ accounts' = accounts
             ELSE /\ ~lastAction'.threw
                  /\ Len(accounts') = Len(accounts)
                  /\ \E k \in 1..Len(accounts) :
                        /\ accounts[k].id = u.id
                        /\ accounts'[k] = u
                        /\ \A i \in 1..Len(accounts) :
                              i # k => accounts'[i] = accounts[i]]_vars


----------------------------------------------------------------------------
(* C14: delete removes the accounts of the given id and keeps every other
   account, in the order they had; when no account has the id the list is
   unchanged and nothing is raised; the transactions are not changed. *)

\* the indices of accs whose account has another id
KeptBy(accs, id) == {i \in 1..Len(accs) : accs[i].id # id}

C14_DeleteAccount ==
    [][\A id \in LedgerIds :
          handleDeleteAccount(id) =>
             /\ Len(accounts') = Cardinality(KeptBy(accounts, id))
             /\ \A i \in KeptBy(accounts, id) :
                   accounts'[Cardinality({j \in KeptBy(accounts, id) :
                                             j <= i})] = accounts[i]
             /\ (KeptBy(accounts, id) = 1..Len(accounts))
                   => accounts' = accounts
             /\ ~lastAction'.threw
             /\ transactions' = transactions]_vars

\* a delete has acted on a ledger that holds a transaction, and an account
\* of another id is left
C14_Witness ==
    /\ lastAction.op = "handleDeleteAccount"
    /\ transactions # << >>
    /\ Len(accounts) = 1
    /\ accounts[1].id = "a3"


----------------------------------------------------------------------------
(* C15: in both hops of the conversion a rate that is missing, zero or
   negative counts as the multiplier 1: the first hop multiplies by the rate
   of the account's currency when that rate is above 0 and by 1 otherwise,
   the second divides by the rate of the base currency when that rate is
   above 0 and by 1 otherwise, so the divisor is always above 0. *)

\* the multiplier the rule above gives currency c, in thousandths
FailSafeRate(rates, c) ==
    IF c \in DOMAIN rates /\ rates[c] > 0 THEN rates[c] ELSE RateScale

C15_FailSafeConversion ==
    res # << >> =>
        LET rates == arg.exchangeRates
            base == arg.baseCurrency
            Invested(a) ==
                IF a.type = INVESTMENT /\ a.balance > 0
                THEN a.balance * FailSafeRate(rates, a.currency) ELSE 0
        IN  /\ res[1].den > 0
            /\ res[1].den = FailSafeRate(rates, base)
            /\ res[1].investments = SumOver(Invested, arg.accounts)
            /\ \A i \in 1..Len(res[2]) :
                  /\ res[2][i].value.den = FailSafeRate(rates, base)
                  /\ res[2][i].value.num =
                        res[2][i].originalValue
                           * FailSafeRate(rates, res[2][i].currency)


----------------------------------------------------------------------------
(* C16: under a valid rate table (every rate above 0, the anchor at 1) an
   amount converted to its own currency is the amount itself, in the chart
   and in the net worth of a ledger of that one account; and a converted
   value, converted again from the base currency to the base currency, does
   not change. *)

ValidRates(rates) ==
    /\ HKD \in DOMAIN rates /\ rates[HKD] = RateScale
    /\ \A c \in DOMAIN rates : rates[c] > 0

C16_ConversionIdentity ==
    (res # << >> /\ ValidRates(arg.exchangeRates)) =>
        LET rates == arg.exchangeRates
            base == arg.baseCurrency
            Own(accs) == {i \in 1..Len(accs) : accs[i].currency = base}
            Again(item) ==
                finalVal([balance |-> item.value.num, currency |-> base],
                         rates, base)
        IN  /\ \A i \in Own(res[2]) :
                  res[2][i].value.num
                     = res[2][i].originalValue * res[2][i].value.den
            /\ Cardinality(Own(res[2]))
                  = Cardinality({i \in Own(arg.accounts) :
                                    arg.accounts[i].balance > 0})
            /\ \A i \in 1..Len(res[2]) :
                  Again(res[2][i]).num
                     = res[2][i].value.num * Again(res[2][i]).den
            /\ (/\ Len(arg.accounts) = 1
                /\ arg.accounts[1].currency = base
                /\ ~(arg.accounts[1].type = INVESTMENT
                       /\ arg.accounts[1].balance < 0))
                  => res[1].netWorth = arg.accounts[1].balance * res[1].den

\* a CNY account is charted with CNY as the base currency under a table that
\* holds a CNY rate other than 1, next to an account of another currency
C16_Witness ==
    /\ res # << >>
    /\ ValidRates(arg.exchangeRates)
    /\ arg.baseCurrency = "CNY"
    /\ "CNY" \in DOMAIN arg.exchangeRates
    /\ Len(res[2]) = 2
    /\ res[2][1].currency = "USD"
    /\ res[2][2].currency = "CNY"


----------------------------------------------------------------------------
(* C17: the totals do not depend on the order of the account list: every
   permutation of the list gives the same net worth, cash buckets,
   investments and liabilities; and computing the totals changes neither the
   accounts nor the rate table. *)

C17_OrderIndependence ==
    /\ [](res # << >> =>
            \A p \in Permutations(1..Len(arg.accounts)) :
               totals([i \in 1..Len(arg.accounts) |-> arg.accounts[p[i]]],
                      arg.exchangeRates, arg.baseCurrency) = res[1])
    /\ [][computeTotals =>
             /\ arg' = arg
             /\ UNCHANGED <<accounts, exchangeRates>>]_vars

\* the totals of a list of two accounts, a debt first and an investment
\* second, have been computed
C17_Witness ==
    /\ res # << >>
    /\ Len(arg.accounts) = 2
    /\ arg.accounts[1].balance < 0
    /\ arg.accounts[2].type = INVESTMENT
    /\ res[1].liabilities > 0
    /\ res[1].investments > 0


----------------------------------------------------------------------------
(* C18: an import attempt moves along Idle, Reading, Extracting, Previewing
   and ends Confirmed, Cancelled or Failed.  The preview is entered only by
   the step that ends the extraction of a file that was read; a commit
   happens only from the preview; and an attempt that has ended moves no
   more: nothing of it is in flight behind a preview, a failure message or
   an idle dialog, and a closed dialog stays closed until it is opened anew
   for the next attempt. *)

\* the invocations of the wizard on screen
MountedProcs == {i \in 1..Len(procs) : procs[i].mounted}

\* where the attempt of the wizard on screen is; Closed stands for no dialog:
\* the last attempt, if any, was confirmed or cancelled
Phase ==
    IF ~isImportOpen THEN "Closed"
    ELSE IF wizard.isProcessing
    THEN IF \E i \in MountedProcs : procs[i].pc = "reading"
         THEN "Reading" ELSE "Extracting"
    ELSE IF hasData(wizard) THEN "Previewing"
    ELSE IF wizard.errorMsg # "" THEN "Failed"
    ELSE "Idle"

\* the moves of the pipeline; choosing a file after a failure starts the
\* next attempt, and a spreadsheet is read and parsed in one step
PipelineMoves ==
    { <<"Closed", "Idle">>,
      <<"Idle", "Reading">>, <<"Idle", "Closed">>,
      <<"Reading", "Extracting">>, <<"Reading", "Previewing">>,
      <<"Reading", "Failed">>, <<"Reading", "Closed">>,
      <<"Extracting", "Previewing">>, <<"Extracting", "Failed">>,
      <<"Extracting", "Closed">>,
      <<"Previewing", "Closed">>,
      <<"Failed", "Reading">>, <<"Failed", "Closed">> }

C18_PipelineOrder ==
    /\ [](/\ (MountedProcs # {}) <=> (isImportOpen /\ wizard.isProcessing)
          /\ Cardinality(MountedProcs) <= 1
          /\ ~isImportOpen => wizard = FreshWizard)
    /\ [][/\ Phase' # Phase => <<Phase, Phase'>> \in PipelineMoves
          /\ (Phase' = "Previewing" /\ Phase # "Previewing") =>
                \E i \in MountedProcs :
                   \/ \E rows \in ExcelSheets : handleExcelImport(i, rows)
                   \/ \E d \in OracleResponses : oracleResolved(i, d)
          /\ (Phase = "Previewing" /\ Phase' = "Previewing") =>
                wizard' = wizard
          /\ (Phase = "Failed" /\ Phase' = "Failed") => wizard' = wizard
          /\ ConfirmStep => (Phase = "Previewing" /\ Phase' = "Closed")]_vars

\* the oracle's answer has put the attempt on screen into the preview
C18_Witness ==
    /\ Phase = "Previewing"
    /\ lastAction.op = "smartParseDocument:return"
    /\ Len(lastAction.errs) > 0


----------------------------------------------------------------------------
(* C19: cleanAmount turns a cell into the number that is left when every
   character that is not a digit, a decimal point or a leading minus sign is
   removed and the rest is parsed; what cannot be parsed gives 0.
   "HK$1,234.50" gives 1234.50 and "-" gives 0. *)

\* the characters the rule keeps: digits, points, and a minus sign before
\* which nothing is kept
RECURSIVE KeepLeadingMinus(_, _)
KeepLeadingMinus(chars, first) ==
    IF chars = << >> THEN << >>
    ELSE LET c == Head(chars)
             stays == c \in Digits \cup {"."} \/ (c = "-" /\ first)
         IN  (IF stays THEN <<c>> ELSE << >>)
             \o KeepLeadingMinus(Tail(chars), first /\ ~stays)

\* the number the rule gives a string
RuleValue(chars) ==
    LET parsed == parseFloat(KeepLeadingMinus(chars, TRUE))
    IN  IF parsed.isNaN THEN [num |-> 0, den |-> 1]
        ELSE [num |-> parsed.num, den |-> parsed.den]

C19_CleanAmount ==
    (res # << >> /\ arg.typ = "string") =>
        /\ res[1].num * RuleValue(arg.chars).den
              = RuleValue(arg.chars).num * res[1].den
        /\ arg.chars = <<"-">> => res[1].num = 0
        /\ arg.chars = <<"H", "K", "$", "1", ",", "2", "3", "4", ".", "5", "0">>
              => res[1].num * 100 = 123450 * res[1].den


\* C19 as amended: every minus sign is kept beside the digits and the
\* points, and the number read is the one written by the longest prefix of
\* what is kept that is a numeral (an optional minus sign, digits, an
\* optional point and digits, one digit at least); 0 when no prefix is one.

\* numeral p is a minus sign or none, i digits, and a point with j digits or
\* no point
NumeralParts(p) ==
    { part \in [neg : BOOLEAN, i : 0..Len(p), point : BOOLEAN, j : 0..Len(p)] :
        LET s == IF part.neg THEN 1 ELSE 0
            d == IF part.point THEN 1 ELSE 0
        IN  /\ Len(p) = s + part.i + d + part.j
            /\ part.i + part.j >= 1
            /\ ~part.point => part.j = 0
            /\ part.neg => p[1] = "-"
            /\ \A k \in (s + 1)..(s + part.i) : p[k] \in Digits
            /\ part.point => p[s + part.i + 1] = "."
            /\ \A k \in (s + part.i + d + 1)..Len(p) : p[k] \in Digits }

NumeralValue(p) ==
    LET part == CHOOSE x \in NumeralParts(p) : TRUE
        s == IF part.neg THEN 1 ELSE 0
        int == digitsValue(SubSeq(p, s + 1, s + part.i))
        frac == digitsValue(SubSeq(p, Len(p) - part.j + 1, Len(p)))
        magnitude == int * Pow10(part.j) + frac
    IN  [num |-> IF part.neg THEN -magnitude ELSE magnitude,
         den |-> Pow10(part.j)]

C19_CleanAmountAmended ==
    (res # << >> /\ arg.typ = "string") =>
        LET Stays(c) == c \in Digits \cup {".", "-"}
            kept == SelectSeq(arg.chars, Stays)
            numerals == {n \in 1..Len(kept) :
                            NumeralParts(SubSeq(kept, 1, n)) # {}}
            longest == CHOOSE n \in numerals : \A m \in numerals : m <= n
        IN  /\ numerals = {} => res[1].num = 0
            /\ numerals # {} =>
                  res[1].num * NumeralValue(SubSeq(kept, 1, longest)).den
                     = NumeralValue(SubSeq(kept, 1, longest)).num * res[1].den
            /\ arg.chars = <<"-">> => res[1].num = 0
            /\ arg.chars
                  = <<"H", "K", "$", "1", ",", "2", "3", "4", ".", "5", "0">>
                  => res[1].num * 100 = 123450 * res[1].den

\* a cell with a minus sign behind a digit has been cleaned
C19_Witness ==
    /\ res # << >>
    /\ arg = CellText(<<"1", "-", "5">>)
    /\ res[1] = [num |-> 1, den |-> 1]


----------------------------------------------------------------------------
(* C20: a refresh merges: every currency of the oracle's response gets the
   response's rate, every other currency keeps the rate it had; a refresh
   that fails or returns nothing leaves the table as it was; and no refresh
   changes the accounts or the transactions. *)

C20_RefreshMerges ==
    [][\A r \in RateResponses :
          refreshRates(r) =>
             /\ (r.isNull \/ DOMAIN r.table = {})
                   => exchangeRates' = exchangeRates
             /\ ~r.isNull =>
                   /\ DOMAIN exchangeRates'
                         = DOMAIN exchangeRates \cup DOMAIN r.table
                   /\ \A c \in DOMAIN r.table : exchangeRates'[c] = r.table[c]
                   /\ \A c \in DOMAIN exchangeRates \ DOMAIN r.table :
                         exchangeRates'[c] = exchangeRates[c]
             /\ accounts' = accounts
             /\ transactions' = transactions]_vars

\* a response of one currency has been merged into a table of two, next to
\* an account loaded from the snapshot
C20_Witness ==
    /\ lastAction.op = "refreshRates"
    /\ DOMAIN exchangeRates = {"HKD", "CNY"}
    /\ exchangeRates["CNY"] = 1100
    /\ exchangeRates["HKD"] = DEFAULT_RATES["HKD"]
    /\ Len(accounts) = 1


----------------------------------------------------------------------------
(* C21: in every reachable state the exchange-rate table maps HKD to 1, and
   the lookup of a currency that the table does not hold gives that
   currency's rate of DEFAULT_RATES.  The table is taken from the snapshot
   and from the oracle's response as it is parsed, so HKD can get any rate;
   and the lookups of the totals memo and of the chart give a missing
   currency the rate 1, whatever DEFAULT_RATES holds for it. *)

C21_RateTableInvariant ==
    /\ HKD \in DOMAIN exchangeRates
    /\ exchangeRates[HKD] = RateScale
    /\ \A c \in Currency \ DOMAIN exchangeRates :
          /\ effectiveRate(exchangeRates, c) = DEFAULT_RATES[c]
          /\ safeRateToHKD(exchangeRates, c) = DEFAULT_RATES[c]


----------------------------------------------------------------------------
(* C22: every account of the store has a type of AccountType and a currency
   of Currency, and every transaction a category of ExpenseCategory: values
   outside the sets that come from the persisted snapshot are replaced by
   Bank, HKD and Other before they enter the store.  Stated on the startup
   load.  The accounts initializer replaces them; the transactions
   initializer returns parsed.transactions as it is parsed. *)

C22_EnumValidity ==
    res # << >> =>
       /\ \A i \in 1..Len(res[1].value) :
             /\ res[1].value[i].type \in AccountType
             /\ res[1].value[i].currency \in Currency
       /\ \A i \in 1..Len(res[2]) : res[2][i].category \in ExpenseCategory


----------------------------------------------------------------------------
(* C23: in every reachable state, when an account is selected, the store
   holds an account of that id: delete, reset and import leave no selection
   that points at an account the store no longer holds. *)

C23_SelectionInStore ==
    selectedAccount # NoAccount =>
       \E i \in 1..Len(accounts) : accounts[i].id = selectedAccount.id

\* the selected account has been deleted: the selection is gone with it
C23_Witness ==
    /\ lastAction.op = "handleDeleteAccount"
    /\ selectedAccount = NoAccount
    /\ accounts = << >>
    /\ storage.accounts.items = << >>


----------------------------------------------------------------------------
(* C24: when the write of the snapshot fails, the error does not propagate:
   the App stays mounted with the accounts, transactions and rates of the
   mutation that triggered the write, the stored snapshot is the one of
   before, and later operations proceed.  The persist effect calls setItem
   outside any try block, so the exception escapes the effect. *)

C24_PersistFailureSwallowed ==
    [][(/\ lastAction'.op \in {"handleAddAccount", "handleSaveAccountEdit",
                               "handleDeleteAccount"}
        /\ setItemThrows(accounts', transactions'))
          => /\ ~crashed'
             /\ storage' = storage]_vars


----------------------------------------------------------------------------
(* C25: in every reachable state where an analysis started by
   triggerAutoAnalysis has not completed, isAnalyzing is true, also when
   two confirmed imports make two analyses overlap and the first completes
   before the second.  The finally block of the first sets isAnalyzing to
   false while the second is outstanding. *)

C25_AnalyzingTracksOutstanding ==
    analyses # << >> => isAnalyzing


----------------------------------------------------------------------------
(* C26: the result of an analysis that was outstanding when the user reset
   all data, or cleared the transactions, is not written back when it
   arrives: after a reset assetAnalysis and expenseAnalysis stay empty, and
   after a clear expenseAnalysis does.  Stated for the analysis that answers
   right after the reset or the clear.  The continuation of
   triggerAutoAnalysis sets both texts whatever has happened since. *)

C26_NoStaleAnalysis ==
    [][\A i \in 1..MaxAnalyses :
          /\ (lastAction.op = "handleResetData" /\ analysisResolved(i))
                => (assetAnalysis' = "" /\ expenseAnalysis' = "")
          /\ (lastAction.op = "handleClearTransactions" /\ analysisResolved(i))
                => expenseAnalysis' = ""]_vars


----------------------------------------------------------------------------
(* C27: in every state reached through quick-add, edit, delete and
   confirmed import, writing the snapshot and running the accounts
   initializer on it gives the account list in memory: the same ids, names,
   types, currencies and balances in the same order, accounts whose name
   was edited to the empty string included.  The initializer reads an empty
   name as a missing one and loads the account as Unknown Asset. *)

C27_PersistLoadRoundTrip ==
    ~crashed =>
       LoadAccounts(persistEffect(storage, accounts, transactions,
                                  exchangeRates), now).value = accounts


----------------------------------------------------------------------------
(* C28: with HKD as the base currency, the netWorth of the totals memo is
   the sum over all accounts of the balance times its effective rate, the
   value the loop accumulates in totalHKD, whatever the types of the
   accounts and the signs of the balances.  netWorth is computed from the
   four buckets, and an Investment account whose balance is not positive is
   added to none of them. *)

RECURSIVE TotalHKD(_, _)
TotalHKD(accs, rates) ==
    IF accs = << >> THEN 0
    ELSE balInHKD(Head(accs), rates) + TotalHKD(Tail(accs), rates)

C28_NetWorthIsTotal ==
    (res # << >> /\ arg.baseCurrency = HKD) =>
       /\ res[1].den = RateScale
       /\ res[1].netWorth = TotalHKD(arg.accounts, arg.exchangeRates)


----------------------------------------------------------------------------
(* C29: when no two accounts of the ledger have names that are equal up to
   letter case, no two accounts have after a confirmed import, also when
   several drafts of the batch bear one name: the later draft overwrites
   the balance of the account created for the earlier one.  Drafts without
   a name are skipped and add nothing: the ledger grows by one account for
   each name of the batch that it did not hold. *)

NamesUnique(accs) ==
    \A i, j \in 1..Len(accs) :
        Lower(accs[i].name) = Lower(accs[j].name) => i = j

NewNames(old, drafts) ==
    { Lower(drafts[k].name) : k \in {h \in 1..Len(drafts) :
                                        Truthy(drafts[h].name)} }
    \ { Lower(old[i].name) : i \in 1..Len(old) }

C29_ImportKeepsNamesUnique ==
    (res # << >> /\ NamesUnique(arg.accounts)) =>
        LET old == arg.accounts
            drafts == arg.drafts
            out == res[1]
        IN  /\ NamesUnique(out)
            /\ Len(out) = Len(old) + Cardinality(NewNames(old, drafts))
            /\ \A i \in 1..Len(out) : Truthy(out[i].name)
            /\ \A k \in 1..Len(drafts) :
                  (/\ Truthy(drafts[k].name)
                   /\ \A g \in (k + 1)..Len(drafts) :
                         Lower(drafts[g].name) # Lower(drafts[k].name))
                  => \E i \in 1..Len(out) :
                        /\ Lower(out[i].name) = Lower(drafts[k].name)
                        /\ out[i].balance = drafts[k].balance

\* two drafts of one name, with a draft without a name between them, went
\* into a ledger of one account: one account was added, and it has the
\* balance of the later draft
C29_Witness ==
    /\ res # << >>
    /\ Len(arg.accounts) = 1
    /\ Len(arg.drafts) = 3
    /\ arg.drafts[1].name = "Mox"
    /\ ~Truthy(arg.drafts[2].name)
    /\ arg.drafts[3].name = "MOX"
    /\ Len(res[1]) = 2
    /\ res[1][2].name = "Mox"
    /\ res[1][2].balance = arg.drafts[3].balance
    /\ res[1][2].balance # arg.drafts[1].balance


----------------------------------------------------------------------------
(* C30: every import attempt ends.  The wizard with the import it hands
   over and the analysis that follows, under the assumption that every file
   read, rasterization, oracle call and backoff delay of an invocation
   completes: a step of an invocation that can be taken is eventually
   taken. *)

NextImport ==
    \/ AttemptStep
    \/ Len(analyses) < MaxAnalyses /\ ConfirmStep
    \/ \E i \in 1..MaxAnalyses : analysisResolved(i)
    \/ Tick

SpecImport ==
    /\ Init
    /\ [][NextImport]_vars
    /\ \A i \in 1..MaxProcs : WF_vars(InvocationStep(i))

\* C30: an attempt started by choosing a file eventually leaves the
\* processing state, with a preview that is not empty or with an error
\* message on screen, on the spreadsheet path and on the document path.
C30_AttemptEnds ==
    (isImportOpen /\ wizard.isProcessing)
        ~> /\ ~wizard.isProcessing
           /\ hasData(wizard) \/ wizard.errorMsg # ""

\* C30, amended: the attempt eventually leaves the processing state with a
\* preview that is not empty or with an error message on screen, or the
\* wizard is closed before it does.
C30_AttemptEndsOrCancelled ==
    (isImportOpen /\ wizard.isProcessing)
        ~> \/ /\ isImportOpen
              /\ ~wizard.isProcessing
              /\ hasData(wizard) \/ wizard.errorMsg # ""
           \/ ~isImportOpen

\* the oracle has answered after two rate-limit failures and their backoff
\* delays, and the wizard shows the preview
C30_Witness ==
    /\ lastAction.op = "smartParseDocument:return"
    /\ Len(lastAction.errs) = 2
    /\ lastAction.delays = <<2000, 4000>>
    /\ isImportOpen
    /\ ~wizard.isProcessing
    /\ hasData(wizard)

============================================================================
